---- MODULE Spec2Model ----
(***************************************************************************)
(* Rules-and-arithmetic core of the PCP claim funding system:              *)
(*   - calculate_dba_distribution   (src/pcp_funding_agent.py)             *)
(*   - FCARedressValidator          (src/fca_redress_validator.py)         *)
(*   - PCPFundingAgent              (src/pcp_funding_agent.py)             *)
(*                                                                         *)
(* Three specifications share the variables: Spec (one call of a function  *)
(* of the core), AgentSpec (a PCPFundingAgent whose methods are called in  *)
(* any order) and PoolSpec (calls interleaved on one shared validator).    *)
(*                                                                         *)
(* The operations of the core are functions of their arguments, the        *)
(* validator's rules and the wall clock.  A behaviour of Spec is one call: *)
(* Init draws the arguments (and rules, and clock) from bounded sets, and  *)
(* the action of the called operation runs the whole function body and     *)
(* stores what it returns.                                                 *)
(*                                                                         *)
(* Money is a whole number of pence-like units and every amount drawn is a *)
(* multiple of 10, so that the 80% / 20% / 50% products of the code are    *)
(* exact; the rounding of binary floating point is not modelled.           *)
(***************************************************************************)
EXTENDS Integers, Sequences, FiniteSets

VARIABLES
  pc,            \* which call is pending or has returned
  clock,         \* datetime.now(), as a day number
  scheme_rules,  \* FCARedressValidator.rules
  dba_args,      \* the arguments of calculate_dba_distribution
  dba_result,    \* the dict it returned
  claim,         \* the claim record given to the validator
  eligibility,   \* the ClaimEligibility returned by check_eligibility
  time_of_day,   \* datetime.now(): the half of the day, 0 or 1
  called_at,     \* the day and half-day of the first call to calculate_redress
  redress,       \* the RedressCalculation returned by calculate_redress
  redress_again, \* the RedressCalculation returned by a second, later call
  comparison,    \* validate_claim: the 'amount_comparison' of its result
  claims_data,   \* PCPFundingAgent.claims_data
  lfa_terms,     \* PCPFundingAgent.lfa_terms
  compliance_history, \* PCPFundingAgent.compliance_history
  returned,      \* what the last call of a PCPFundingAgent method returned or raised
  workers        \* the calls in progress on one shared validator, one per worker

agent_vars == <<claims_data, lfa_terms, compliance_history, returned>>

vars == <<pc, clock, scheme_rules, dba_args, dba_result, claim, eligibility,
          time_of_day, called_at, redress, redress_again, comparison,
          claims_data, lfa_terms, compliance_history, returned, workers>>

Min(a, b) == IF a <= b THEN a ELSE b
Max(a, b) == IF a >= b THEN a ELSE b

(***************************************************************************)
(* Bounds of the model.                                                    *)
(***************************************************************************)
MaxGross == 9
MaxTier == 3
MaxDayOffset == 1
MaxDaysLater == 1
MaxHistory == 2

GrossAmounts == {10 * k : k \in -2..MaxGross}
TierAmounts == {10 * k : k \in -1..MaxTier}

(***************************************************************************)
(* calculate_dba_distribution                                              *)
(***************************************************************************)
FunderPct == 80
FirmPct == 20
ProcessorPct == 50

FirmShare(step3, net_proceeds) == step3 + (net_proceeds * FirmPct) \div 100

FirmFinalShareOfNetOnly(step3, net_proceeds, claims_processor_share) ==
  (net_proceeds * FirmPct) \div 100 - claims_processor_share
FirmFinalShare(step3, net_proceeds, claims_processor_share) ==
  FirmShare(step3, net_proceeds) - claims_processor_share

NetProceeds(remaining) == Max(remaining, 0)

RemainingNotReduced(remaining, paid) == remaining
Remaining(remaining, paid) == remaining - paid

TierPaidNominal(remaining, nominal) == nominal
TierPaidRemaining(remaining, nominal) == remaining
TierPaidMax(remaining, nominal) == Max(remaining, nominal)
TierPaid(remaining, nominal) == Min(remaining, nominal)

calculate_dba_distribution(net_dba_proceeds, outstanding_costs_sum, first_tier_funder_return, distribution_costs_overrun) ==
  LET step1 == TierPaid(net_dba_proceeds, outstanding_costs_sum)
      remaining1 == Remaining(net_dba_proceeds, step1)
      step2 == TierPaid(remaining1, first_tier_funder_return)
      remaining2 == Remaining(remaining1, step2)
      step3 == TierPaid(remaining2, distribution_costs_overrun)
      remaining3 == Remaining(remaining2, step3)
      net_proceeds == NetProceeds(remaining3)
      funder_share == step1 + step2 + (net_proceeds * FunderPct) \div 100
      firm_share == FirmShare(step3, net_proceeds)
      claims_processor_share == (firm_share * ProcessorPct) \div 100
      firm_final_share == FirmFinalShare(step3, net_proceeds, claims_processor_share)
  IN  [raised |-> "none",
       funder_share |-> funder_share,
       firm_share |-> firm_final_share,
       claims_processor_share |-> claims_processor_share,
       outstanding_costs_sum |-> step1,
       first_tier_funder_return |-> step2,
       distribution_costs_overrun |-> step3,
       net_proceeds |-> net_proceeds]

NoDbaArgs == [net_dba_proceeds |-> 0, outstanding_costs_sum |-> 0,
              first_tier_funder_return |-> 0, distribution_costs_overrun |-> 0]
NoDbaResult == [raised |-> "not called", funder_share |-> 0, firm_share |-> 0,
                claims_processor_share |-> 0, outstanding_costs_sum |-> 0,
                first_tier_funder_return |-> 0, distribution_costs_overrun |-> 0,
                net_proceeds |-> 0]

DbaArgs == [net_dba_proceeds : GrossAmounts, outstanding_costs_sum : TierAmounts,
            first_tier_funder_return : TierAmounts,
            distribution_costs_overrun : TierAmounts]


(***************************************************************************)
(* Text.  A string is a sequence of one-character strings; str.upper and   *)
(* str.strip are computed character by character.                          *)
(***************************************************************************)
LowerCase == <<"a", "c", "d", "e", "h", "i", "l", "n", "o", "p", "r", "s", "t", "u">>
UpperCase == <<"A", "C", "D", "E", "H", "I", "L", "N", "O", "P", "R", "S", "T", "U">>

UpperChar(c) ==
  IF \E i \in 1..Len(LowerCase) : LowerCase[i] = c
  THEN UpperCase[CHOOSE i \in 1..Len(LowerCase) : LowerCase[i] = c]
  ELSE c

Upper(s) == [i \in 1..Len(s) |-> UpperChar(s[i])]

IsSpace(c) == c = " "

RECURSIVE LStrip(_)
LStrip(s) == IF s # <<>> /\ IsSpace(Head(s)) THEN LStrip(Tail(s)) ELSE s

RECURSIVE RStrip(_)
RStrip(s) ==
  IF s # <<>> /\ IsSpace(s[Len(s)]) THEN RStrip(SubSeq(s, 1, Len(s) - 1)) ELSE s

Strip(s) == RStrip(LStrip(s))

(***************************************************************************)
(* Dates.  A date string is the record of its layout and of the numbers    *)
(* written in it; strptime accepts it when the layout is the format asked  *)
(* for and the numbers are a date of the calendar, and returns the day     *)
(* number (date.toordinal) of that date.                                   *)
(***************************************************************************)
DATE_FORMATS == <<"%Y-%m-%d", "%d/%m/%Y", "%d-%m-%Y">>

EmptyString == [fmt |-> "", y |-> 0, m |-> 0, d |-> 0]
DateStr(fmt, y, m, d) == [fmt |-> fmt, y |-> y, m |-> m, d |-> d]

IsLeap(y) == (y % 4 = 0) /\ ((y % 100 # 0) \/ (y % 400 = 0))

DaysInMonth(y, m) ==
  IF m = 2 THEN (IF IsLeap(y) THEN 29 ELSE 28)
  ELSE IF m \in {4, 6, 9, 11} THEN 30 ELSE 31

RECURSIVE DaysBeforeMonth(_, _)
DaysBeforeMonth(y, m) ==
  IF m <= 1 THEN 0 ELSE DaysBeforeMonth(y, m - 1) + DaysInMonth(y, m - 1)

DaysBeforeYear(y) ==
  (y - 1) * 365 + (y - 1) \div 4 - (y - 1) \div 100 + (y - 1) \div 400

ToOrdinal(y, m, d) == DaysBeforeYear(y) + DaysBeforeMonth(y, m) + d

IsCalendarDate(y, m, d) ==
  /\ y \in 1..9999
  /\ m \in 1..12
  /\ d \in 1..DaysInMonth(y, m)

ParseFailure == [ok |-> FALSE, day |-> 0]

strptime(s, fmt) ==
  IF s.fmt = fmt /\ IsCalendarDate(s.y, s.m, s.d)
  THEN [ok |-> TRUE, day |-> ToOrdinal(s.y, s.m, s.d)]
  ELSE ParseFailure

\* for fmt in [...]: try: strptime(s, fmt); break / except ValueError: continue
RECURSIVE TryFormats(_, _)
TryFormats(s, i) ==
  IF i > Len(DATE_FORMATS) THEN ParseFailure
  ELSE LET r == strptime(s, DATE_FORMATS[i])
       IN  IF r.ok THEN r ELSE TryFormats(s, i + 1)

ParseDate(s) == TryFormats(s, 1)

(***************************************************************************)
(* FCASchemeRules                                                          *)
(***************************************************************************)
PCP == <<"P", "C", "P">>
HP == <<"H", "P">>
CS == <<"C", "S">>
PCH == <<"P", "C", "H">>
PERSONAL_CONTRACT_PURCHASE ==
  <<"P", "E", "R", "S", "O", "N", "A", "L", " ", "C", "O", "N", "T", "R", "A", "C", "T",
    " ", "P", "U", "R", "C", "H", "A", "S", "E">>
HIRE_PURCHASE == <<"H", "I", "R", "E", " ", "P", "U", "R", "C", "H", "A", "S", "E">>
CONDITIONAL_SALE ==
  <<"C", "O", "N", "D", "I", "T", "I", "O", "N", "A", "L", " ", "S", "A", "L", "E">>
PERSONAL_CONTRACT_HIRE ==
  <<"P", "E", "R", "S", "O", "N", "A", "L", " ", "C", "O", "N", "T", "R", "A", "C", "T",
    " ", "H", "I", "R", "E">>

NoCap == [set |-> FALSE, amount |-> 0]

FCASchemeRules ==
  [agreement_start_date_min |-> DateStr("%Y-%m-%d", 2007, 4, 6),
   agreement_start_date_max |-> DateStr("%Y-%m-%d", 2021, 1, 28),
   plevin_threshold |-> 50,
   limitation_period_years |-> 6,
   statutory_interest_rate |-> 8,
   eligible_product_types |-> <<PCP, HP, CS, PCH>>,
   max_redress_amount |-> NoCap]

\* a scheme configured by the caller: later window, lower threshold, PCP and HP only
CustomSchemeRules ==
  [agreement_start_date_min |-> DateStr("%Y-%m-%d", 2019, 6, 15),
   agreement_start_date_max |-> DateStr("%Y-%m-%d", 2024, 2, 29),
   plevin_threshold |-> 24,
   limitation_period_years |-> 6,
   statutory_interest_rate |-> 8,
   eligible_product_types |-> <<PCP, HP>>,
   max_redress_amount |-> NoCap]

(***************************************************************************)
(* FCARedressValidator: the four sub-checks.  Each takes the reasons and   *)
(* warnings lists as they are when it is called and returns its verdict    *)
(* with the two lists as it leaves them.                                   *)
(***************************************************************************)
Checked(ret, reasons, warnings) == [ret |-> ret, reasons |-> reasons, warnings |-> warnings]

BeforeMin(agr_day, min_day) == agr_day < min_day

AfterMaxExclusive(agr_day, max_day) == agr_day >= max_day
AfterMax(agr_day, max_day) == agr_day > max_day

UnparseableDatePasses(reasons, warnings) == Checked(TRUE, reasons, warnings)
UnparseableDate(reasons, warnings) ==
  Checked(FALSE, Append(reasons, "Invalid agreement date format"), warnings)

_check_date_eligibility(rules, today, agreement_date, reasons, warnings) ==
  IF agreement_date = EmptyString
  THEN Checked(FALSE, Append(reasons, "Agreement date not provided"), warnings)
  ELSE
    LET agr == ParseDate(agreement_date)
        min_date == strptime(rules.agreement_start_date_min, "%Y-%m-%d")
        max_date == strptime(rules.agreement_start_date_max, "%Y-%m-%d")
    IN  IF ~agr.ok THEN UnparseableDate(reasons, warnings)
        ELSE IF ~min_date.ok \/ ~max_date.ok
        THEN Checked(FALSE, Append(reasons, "Error checking agreement date"), warnings)
        ELSE IF BeforeMin(agr.day, min_date.day)
        THEN Checked(FALSE, Append(reasons, "Agreement date is before eligible period"),
                     warnings)
        ELSE IF AfterMax(agr.day, max_date.day)
        THEN Checked(FALSE, Append(reasons, "Agreement date is after eligible period"),
                     warnings)
        ELSE Checked(TRUE,
                     Append(reasons, "Agreement date within eligible period"),
                     IF today - agr.day < 365
                     THEN Append(warnings, "Recent agreement - verify all documentation")
                     ELSE warnings)

product_mappings_none(product_type) == product_type
product_mappings(product_type) ==
  IF product_type = PERSONAL_CONTRACT_PURCHASE THEN PCP
  ELSE IF product_type = HIRE_PURCHASE THEN HP
  ELSE IF product_type = CONDITIONAL_SALE THEN CS
  ELSE IF product_type = PERSONAL_CONTRACT_HIRE THEN PCH
  ELSE product_type

InList(x, list) == \E i \in 1..Len(list) : list[i] = x

_check_product_type(rules, product_type_arg, reasons, warnings) ==
  IF product_type_arg = <<>>
  THEN Checked(TRUE, reasons,
               Append(warnings, "Product type not specified - assuming eligible"))
  ELSE
    LET product_type == Strip(Upper(product_type_arg))
        normalized_type == product_mappings(product_type)
    IN  IF InList(normalized_type, rules.eligible_product_types)
        THEN Checked(TRUE, Append(reasons, "Product type is eligible under FCA scheme"),
                     warnings)
        ELSE Checked(FALSE, Append(reasons, "Product type not covered by FCA scheme"),
                     Append(warnings, "Eligible types"))

\* a percentage is the fraction num / den, den > 0
Pct(num, den) == [num |-> num, den |-> den]

MeetsThresholdStrictly(commission_pct, threshold) ==
  commission_pct.num > threshold * commission_pct.den
MeetsThreshold(commission_pct, threshold) ==
  commission_pct.num >= threshold * commission_pct.den

_check_commission_threshold_undisclosed(rules, commission_pct, disclosure_adequate, reasons, warnings) ==
  IF commission_pct.num = 0
  THEN Checked(FALSE, reasons,
               Append(warnings,
                      "Commission percentage not available - cannot verify Plevin threshold"))
  ELSE IF MeetsThreshold(commission_pct, rules.plevin_threshold) /\ disclosure_adequate # "Y"
  THEN Checked(TRUE,
               Append(Append(reasons, "Commission exceeds Plevin threshold"),
                      "Commission not adequately disclosed"),
               warnings)
  ELSE Checked(FALSE, Append(reasons, "Commission below Plevin threshold"),
               Append(warnings, "May still be eligible under other unfairness grounds"))
_check_commission_threshold(rules, commission_pct, disclosure_adequate, reasons, warnings) ==
  IF commission_pct.num = 0
  THEN Checked(FALSE, reasons,
               Append(warnings,
                      "Commission percentage not available - cannot verify Plevin threshold"))
  ELSE IF MeetsThreshold(commission_pct, rules.plevin_threshold)
  THEN Checked(TRUE,
               IF disclosure_adequate # "Y"
               THEN Append(Append(reasons, "Commission exceeds Plevin threshold"),
                           "Commission not adequately disclosed")
               ELSE Append(reasons, "Commission exceeds Plevin threshold"),
               warnings)
  ELSE Checked(FALSE, Append(reasons, "Commission below Plevin threshold"),
               Append(warnings, "May still be eligible under other unfairness grounds"))

\* years_elapsed = days / 365.25 > limitation_period_years
OverLimitation(days, years) == days * 4 > years * 1461

LimitationExpired(rules, days, reasons, warnings) ==
  Checked(FALSE, Append(reasons, "Limitation: years since agreement"),
          Append(warnings, "Agreement over limitation period - verify date of knowledge"))
LimitationWarned(rules, days, reasons, warnings) ==
  Checked(TRUE, Append(reasons, "Limitation: years since agreement"),
          Append(warnings, "Agreement over limitation period - verify date of knowledge"))

_check_limitation_period(rules, today, agreement_date, submission_date, reasons, warnings) ==
  IF agreement_date = EmptyString
  THEN Checked(TRUE, reasons,
               Append(warnings, "Cannot verify limitation period without agreement date"))
  ELSE
    LET agr == ParseDate(agreement_date)
        sub == IF submission_date # EmptyString THEN ParseDate(submission_date)
               ELSE [ok |-> TRUE, day |-> today]
    IN  \* agr_date or sub_date is unbound when no format matched: the
        \* subtraction raises and the except clause answers
        IF ~agr.ok \/ ~sub.ok
        THEN Checked(TRUE, reasons, Append(warnings, "Could not verify limitation period"))
        ELSE IF OverLimitation(sub.day - agr.day, rules.limitation_period_years)
        THEN LimitationWarned(rules, sub.day - agr.day, reasons, warnings)
        ELSE Checked(TRUE, Append(reasons, "Within limitation period"), warnings)

(***************************************************************************)
(* FCARedressValidator.check_eligibility                                   *)
(***************************************************************************)
AllCritical(date_ok, product_ok, limitation_ok) == date_ok /\ product_ok /\ limitation_ok

Approve(warnings) ==
  [status |-> "ELIGIBLE", eligible |-> TRUE,
   recommendation |-> "APPROVE - Claim meets FCA eligibility criteria",
   warnings |-> warnings]
ReviewEligible(warnings) ==
  [status |-> "REQUIRES_REVIEW", eligible |-> TRUE,
   recommendation |-> "REVIEW - Commission below Plevin threshold but may have other grounds",
   warnings |-> Append(warnings,
                       "Commission below 50% threshold - review for other unfairness grounds")]
Review(warnings) ==
  [status |-> "REQUIRES_REVIEW", eligible |-> FALSE,
   recommendation |-> "REVIEW - Commission below Plevin threshold but may have other grounds",
   warnings |-> Append(warnings,
                       "Commission below 50% threshold - review for other unfairness grounds")]
Reject(warnings) ==
  [status |-> "INELIGIBLE", eligible |-> FALSE,
   recommendation |-> "REJECT - Claim does not meet FCA eligibility criteria",
   warnings |-> warnings]

VerdictRejectingLowCommission(critical, commission_threshold_met, warnings) ==
  IF critical /\ commission_threshold_met THEN Approve(warnings) ELSE Reject(warnings)
Verdict(critical, commission_threshold_met, warnings) ==
  IF critical /\ commission_threshold_met THEN Approve(warnings)
  ELSE IF critical /\ ~commission_threshold_met THEN Review(warnings)
  ELSE Reject(warnings)

\* commission_amount / cost_of_credit * 100: ZeroDivisionError on a zero divisor
CommissionPctOfCost(commission_amount, cost_of_credit) ==
  IF cost_of_credit = 0
  THEN [raised |-> "ZeroDivisionError", pct |-> Pct(0, 1)]
  ELSE [raised |-> "none", pct |-> Pct(commission_amount * 100, cost_of_credit)]

CostOfCreditUnchecked(cost_of_credit) == TRUE
CostOfCreditKnown(cost_of_credit) == cost_of_credit > 0

\* "Calculate commission percentage if not provided"
DerivedCommissionPct(supplied_pct, commission_amount, cost_of_credit) ==
  IF supplied_pct.num = 0 /\ commission_amount > 0 /\ CostOfCreditKnown(cost_of_credit)
  THEN CommissionPctOfCost(commission_amount, cost_of_credit)
  ELSE [raised |-> "none", pct |-> supplied_pct]

EligibilityRaised(exception) ==
  [raised |-> exception, status |-> "", eligible |-> FALSE, reasons |-> <<>>,
   warnings |-> <<>>, date_checks_passed |-> FALSE, product_type_eligible |-> FALSE,
   commission_threshold_met |-> FALSE, limitation_period_valid |-> FALSE,
   recommendation |-> ""]

check_eligibility(rules, today, claim_data) ==
  LET agreement_date == claim_data.agreement_date
      product_type == Upper(claim_data.product_type)
      supplied_pct == Pct(claim_data.commission_pct_of_cost, 1)
      loan_amount == claim_data.loan_amount
      commission_amount == claim_data.commission_amount
      disclosure_adequate == claim_data.disclosure_adequate
      cost_of_credit == claim_data.total_cost_of_credit
      derived == DerivedCommissionPct(supplied_pct, commission_amount, cost_of_credit)
      commission_pct == derived.pct
      c1 == _check_date_eligibility(rules, today, agreement_date, <<>>, <<>>)
      c2 == _check_product_type(rules, product_type, c1.reasons, c1.warnings)
      c3 == _check_commission_threshold(rules, commission_pct, disclosure_adequate,
                                        c2.reasons, c2.warnings)
      c4 == _check_limitation_period(rules, today, agreement_date,
                                     claim_data.submission_date, c3.reasons, c3.warnings)
      w5 == IF loan_amount > 0 /\ loan_amount < 1000
            THEN Append(c4.warnings, "Low loan amount - verify claim is worthwhile")
            ELSE c4.warnings
      w6 == IF disclosure_adequate = "Y"
            THEN Append(w5, "Claimant indicated disclosure was adequate - review evidence")
            ELSE w5
      critical == AllCritical(c1.ret, c2.ret, c4.ret)
      verdict == Verdict(critical, c3.ret, w6)
  IN  IF derived.raised # "none" THEN EligibilityRaised(derived.raised) ELSE
      [raised |-> "none",
       status |-> verdict.status,
       eligible |-> verdict.eligible,
       reasons |-> c4.reasons,
       warnings |-> verdict.warnings,
       date_checks_passed |-> c1.ret,
       product_type_eligible |-> c2.ret,
       commission_threshold_met |-> c3.ret,
       limitation_period_valid |-> c4.ret,
       recommendation |-> verdict.recommendation]

NoEligibility ==
  [raised |-> "not called", status |-> "", eligible |-> FALSE, reasons |-> <<>>,
   warnings |-> <<>>, date_checks_passed |-> FALSE, product_type_eligible |-> FALSE,
   commission_threshold_met |-> FALSE, limitation_period_valid |-> FALSE,
   recommendation |-> ""]

(***************************************************************************)
(* FCARedressValidator.calculate_redress                                   *)
(*                                                                         *)
(* Amounts of a RedressCalculation are whole numbers of 1/MoneyUnit of the *)
(* currency unit, MoneyUnit = 100 * 365.25, which makes                    *)
(* basic * (rate / 100) * (days / 365.25) exact; the commission amounts    *)
(* drawn are even, which makes commission * 0.5 exact.                     *)
(***************************************************************************)
MoneyUnit == (100 * 1461) \div 4
Money(amount) == amount * MoneyUnit

DistressAward == 150

BasicRedress(commission_amount) == Money(commission_amount) \div 2

\* (datetime.now() - agr_date).days: agr_date is a midnight, the time of day
\* of now is dropped
ElapsedDaysRounded(today, half, agr_day) == today - agr_day + half
ElapsedDays(today, half, agr_day) == today - agr_day

\* basic_redress * (statutory_interest_rate / 100) * (days / 365.25)
StatutoryInterest(basic_redress, rate, days) ==
  (basic_redress \div MoneyUnit) * rate * days

TotalWithoutLosses(basic, interest, distress, losses) == basic + interest + distress
TotalRedress(basic, interest, distress, losses) == basic + interest + distress + losses

\* "if self.rules.max_redress_amount and total_redress > ...": None and 0 are falsy
CapApplies(cap, total_redress) ==
  cap.set /\ cap.amount # 0 /\ total_redress > Money(cap.amount)

ReportedBaseReducedByCap(basic_redress, uncapped_total, total_redress) ==
  basic_redress - (uncapped_total - total_redress)
ReportedBase(basic_redress, uncapped_total, total_redress) == basic_redress

Entry(key, value) == [key |-> key, value |-> value]

calculate_redress(rules, today, half, claim_data) ==
  LET commission_amount == claim_data.commission_amount
      agreement_date == claim_data.agreement_date
      basic_redress == BasicRedress(commission_amount)
      breakdown1 == <<Entry("commission_refund", basic_redress)>>
      notes1 == <<"Basic redress: 50% of commission">>
      agr == ParseDate(agreement_date)
      \* agr_date is unbound when no format matched: the subtraction raises
      \* and the bare except answers
      computed == agreement_date # EmptyString /\ agr.ok
      statutory_interest ==
        IF computed
        THEN StatutoryInterest(basic_redress, rules.statutory_interest_rate,
                               ElapsedDays(today, half, agr.day))
        ELSE 0
      breakdown2 == IF computed
                    THEN Append(breakdown1, Entry("statutory_interest", statutory_interest))
                    ELSE breakdown1
      notes2 == IF computed THEN Append(notes1, "Statutory interest: % p.a. over years")
                ELSE IF agreement_date # EmptyString
                THEN Append(notes1, "Could not calculate statutory interest")
                ELSE notes1
      distress_inconvenience == Money(DistressAward)
      breakdown3 == Append(breakdown2, Entry("distress_inconvenience", distress_inconvenience))
      notes3 == Append(notes2, "Distress & inconvenience: 150 (standard award)")
      consequential_losses == Money(claim_data.consequential_losses)
      breakdown4 == IF consequential_losses > 0
                    THEN Append(breakdown3, Entry("consequential_losses", consequential_losses))
                    ELSE breakdown3
      notes4 == IF consequential_losses > 0 THEN Append(notes3, "Consequential losses")
                ELSE notes3
      uncapped_total == TotalRedress(basic_redress, statutory_interest,
                                     distress_inconvenience, consequential_losses)
      capped == CapApplies(rules.max_redress_amount, uncapped_total)
      total_redress == IF capped THEN Money(rules.max_redress_amount.amount)
                       ELSE uncapped_total
      notes5 == IF capped THEN Append(notes4, "Total capped at scheme maximum") ELSE notes4
  IN  [raised |-> "none",
       calculation_method |-> "BASIC_RATE",
       base_redress_amount |-> ReportedBase(basic_redress, uncapped_total, total_redress),
       statutory_interest |-> statutory_interest,
       total_redress |-> total_redress,
       breakdown |-> breakdown4,
       distress_inconvenience |-> distress_inconvenience,
       consequential_losses |-> consequential_losses,
       calculation_notes |-> Append(notes5, "Total FCA redress")]

NoRedress ==
  [raised |-> "not called", calculation_method |-> "", base_redress_amount |-> 0,
   statutory_interest |-> 0, total_redress |-> 0, breakdown |-> <<>>,
   distress_inconvenience |-> 0, consequential_losses |-> 0, calculation_notes |-> <<>>]

(***************************************************************************)
(* FCARedressValidator.validate_claim and _assess_claim_amount             *)
(***************************************************************************)
\* claim_data.get('claim_amount', 0) or claim_data.get('redress_calculated', 0)
ClaimedAmount(claim_data) ==
  IF claim_data.claim_amount # 0 THEN claim_data.claim_amount
  ELSE claim_data.redress_calculated

VarianceOfAnyAmount(claimed_amount, total_redress) == Money(claimed_amount) - total_redress
Variance(claimed_amount, total_redress) ==
  IF claimed_amount > 0 THEN Money(claimed_amount) - total_redress ELSE 0

VariancePct(variance, total_redress) ==
  IF total_redress > 0 THEN Pct(variance * 100, total_redress) ELSE Pct(0, 1)

Abs(x) == IF x < 0 THEN -x ELSE x

\* abs(variance_pct) < 10, for a fraction with a positive denominator
AlignsInclusive(variance_pct) == Abs(variance_pct.num) <= 10 * variance_pct.den
Aligns(variance_pct) == Abs(variance_pct.num) < 10 * variance_pct.den

_assess_claim_amount(variance_pct) ==
  IF Aligns(variance_pct) THEN "Claimed amount aligns with FCA calculation"
  ELSE IF variance_pct.num > 10 * variance_pct.den
  THEN "Claimed amount higher than FCA calculation - review justification"
  ELSE "Claimed amount lower than FCA calculation - may be under-claimed"

amount_comparison(claim_data, total_redress) ==
  LET claimed_amount == ClaimedAmount(claim_data)
      variance == Variance(claimed_amount, total_redress)
      variance_pct == VariancePct(variance, total_redress)
  IN  [claimed_amount |-> claimed_amount,
       fca_calculated_amount |-> total_redress,
       variance |-> variance,
       variance_percentage |-> variance_pct,
       assessment |-> _assess_claim_amount(variance_pct)]

NoComparison ==
  [claimed_amount |-> 0, fca_calculated_amount |-> 0, variance |-> 0,
   variance_percentage |-> Pct(0, 1), assessment |-> ""]

(***************************************************************************)
(* The claim records, rules and clocks the calls are made with.            *)
(***************************************************************************)
WindowDays ==
  {<<2007, 4, 6 + k>> : k \in -MaxDayOffset..MaxDayOffset}
    \cup {<<2021, 1, 28 + k>> : k \in -MaxDayOffset..MaxDayOffset}

\* 2019-02-30 and 2023-02-29 are not dates of the calendar
OtherDays == {<<2019, 6, 15>>, <<2019, 2, 30>>, <<2024, 2, 29>>, <<2024, 3, 1>>,
              <<2023, 2, 29>>}

AgreementDates ==
  {EmptyString, DateStr("text", 0, 0, 0), DateStr("%Y/%m/%d", 2019, 6, 15)}
    \cup {DateStr("%Y-%m-%d", t[1], t[2], t[3]) : t \in WindowDays \cup OtherDays}
    \cup {DateStr(f, t[1], t[2], t[3]) : f \in {"%d/%m/%Y", "%d-%m-%Y"}, t \in WindowDays}

SubmissionDates ==
  {EmptyString, DateStr("text", 0, 0, 0), DateStr("%Y-%m-%d", 2020, 1, 1),
   DateStr("%d/%m/%Y", 2027, 3, 1)}

ProductTypes ==
  {<<>>, PCP, <<"p", "c", "p">>, <<" ", "P", "c", "p", " ">>, <<" ", " ">>,
   <<"h", "i", "r", "e", " ", "p", "u", "r", "c", "h", "a", "s", "e">>,
   <<"L", "E", "A", "S", "E">>, CS}

Clocks == {ToOrdinal(2021, 6, 1), ToOrdinal(2026, 11, 5)}

ClaimRecords ==
  [agreement_date : AgreementDates,
   submission_date : SubmissionDates,
   product_type : ProductTypes,
   commission_pct_of_cost : {0, 24, 50},
   commission_amount : {0, 1200, 3000},
   total_cost_of_credit : {0, 5000},
   loan_amount : {0, 500, 2000},
   disclosure_adequate : {"Y", "N"},
   consequential_losses : {0},
   claim_amount : {0},
   redress_calculated : {0}]

NoClaim ==
  [agreement_date |-> EmptyString, submission_date |-> EmptyString, product_type |-> <<>>,
   commission_pct_of_cost |-> 0, commission_amount |-> 0, total_cost_of_credit |-> 0,
   loan_amount |-> 0, disclosure_adequate |-> "N", consequential_losses |-> 0,
   claim_amount |-> 0, redress_calculated |-> 0]

RulesInUse == {FCASchemeRules, CustomSchemeRules}

Cap(amount) == [set |-> TRUE, amount |-> amount]

CappedRules ==
  {[FCASchemeRules EXCEPT !.max_redress_amount = c] : c \in {NoCap, Cap(0), Cap(250), Cap(5000)}}

\* dated in 2099: an agreement date later than the clock
RedressDates ==
  {EmptyString, DateStr("text", 0, 0, 0), DateStr("%Y-%m-%d", 2019, 6, 15),
   DateStr("%d/%m/%Y", 2021, 1, 28), DateStr("%Y-%m-%d", 2099, 1, 1)}

RedressClaims ==
  [agreement_date : RedressDates,
   submission_date : {EmptyString},
   product_type : {PCP},
   commission_pct_of_cost : {0},
   commission_amount : {0, 100, 300},
   total_cost_of_credit : {500},
   loan_amount : {2000},
   disclosure_adequate : {"N"},
   consequential_losses : {0, 100},
   claim_amount : {0},
   redress_calculated : {0}]

ValidatedClaims ==
  [agreement_date : {EmptyString, DateStr("%Y-%m-%d", 2019, 6, 15),
                     DateStr("%Y-%m-%d", 2099, 1, 1)},
   submission_date : {EmptyString},
   product_type : {PCP},
   commission_pct_of_cost : {0},
   commission_amount : {0, 100, 300},
   total_cost_of_credit : {500},
   loan_amount : {2000},
   disclosure_adequate : {"N"},
   consequential_losses : {0},
   claim_amount : {0, 180, 200, 220, 240},
   redress_calculated : {0, 220}]

(***************************************************************************)
(* PCPFundingAgent (src/pcp_funding_agent.py)                              *)
(*                                                                         *)
(* claims_data maps every claim id to the ClaimData ingested under it, or  *)
(* to NotIngested; lfa_terms is an LFATerms or NoLfaTerms (None).  The     *)
(* amounts drawn make claim_amount / funded_amount a number of two         *)
(* decimals, so that round(..., 2) changes nothing; return_multiple is     *)
(* held in hundredths.  The formatted 'details' of a check are left out.   *)
(***************************************************************************)
ClaimIds == {"C001", "C002"}

NotIngested ==
  [ingested |-> FALSE, claim_id |-> "", claim_amount |-> 0, funded_amount |-> 0,
   status |-> "", documentation_received |-> <<>>]

ClaimData(claim_id, claim_amount, funded_amount, status, documentation_received) ==
  [ingested |-> TRUE, claim_id |-> claim_id, claim_amount |-> claim_amount,
   funded_amount |-> funded_amount, status |-> status,
   documentation_received |-> documentation_received]

NoLfaTerms ==
  [loaded |-> FALSE, funding_cap |-> 0, minimum_return_multiple |-> 0,
   jurisdiction |-> "", adverse_costs_insurance_required |-> FALSE]

LFATerms(funding_cap, minimum_return_multiple, jurisdiction, adverse_costs_insurance_required) ==
  [loaded |-> TRUE, funding_cap |-> funding_cap,
   minimum_return_multiple |-> minimum_return_multiple, jurisdiction |-> jurisdiction,
   adverse_costs_insurance_required |-> adverse_costs_insurance_required]

COMPLIANT == "compliant"
NON_COMPLIANT == "non_compliant"
REQUIRES_REVIEW == "requires_review"
LITIGATION == "litigation"

ComplianceCheck(check_name, status, recommendation) ==
  [check_name |-> check_name, status |-> status, recommendation |-> recommendation]

required_docs == <<"claim_form", "lfa_signed", "insurance_policy">>

missing_docs(documentation_received) ==
  SelectSeq(required_docs, LAMBDA doc : ~InList(doc, documentation_received))

\* Check 1: Funding cap compliance
FundingCapCheck(agent_claim, lfa) ==
  IF agent_claim.funded_amount <= lfa.funding_cap
  THEN <<ComplianceCheck("Funding Cap", COMPLIANT, "None")>>
  ELSE <<ComplianceCheck("Funding Cap", NON_COMPLIANT,
           "Seek IC approval for excess funding or restructure funding arrangement")>>

\* Check 2: Jurisdiction compliance
JurisdictionCheck(lfa) ==
  IF lfa.jurisdiction = "UK"
  THEN <<ComplianceCheck("Jurisdiction", COMPLIANT, "None")>>
  ELSE <<>>

\* Check 3: Documentation completeness
DocumentationCheck(agent_claim) ==
  IF missing_docs(agent_claim.documentation_received) = <<>>
  THEN <<ComplianceCheck("Documentation", COMPLIANT, "None")>>
  ELSE <<ComplianceCheck("Documentation", REQUIRES_REVIEW,
           "Request outstanding documentation from law firm")>>

\* Check 4: Adverse costs insurance
InsuranceCheck(agent_claim, lfa) ==
  IF ~lfa.adverse_costs_insurance_required THEN <<>>
  ELSE IF InList("insurance_policy", agent_claim.documentation_received)
  THEN <<ComplianceCheck("Adverse Costs Insurance", COMPLIANT, "None")>>
  ELSE <<ComplianceCheck("Adverse Costs Insurance", NON_COMPLIANT,
           "Obtain ATE insurance policy immediately")>>

compliance_checks(agent_claim, lfa) ==
  FundingCapCheck(agent_claim, lfa) \o JurisdictionCheck(lfa)
    \o DocumentationCheck(agent_claim) \o InsuranceCheck(agent_claim, lfa)

HistoryEntry(claim_id, today, checks) ==
  [claim_id |-> claim_id, timestamp |-> today, checks |-> checks]

StoreLatestCheck(history, entry) == <<entry>>
StoreCheck(history, entry) == Append(history, entry)

\* the checks returned, or the exception raised, and compliance_history after
check_lfa_compliance(claims, lfa, history, today, claim_id) ==
  IF ~lfa.loaded
  THEN [raised |-> "ValueError", checks |-> <<>>, compliance_history |-> history]
  ELSE IF ~claims[claim_id].ingested
  THEN [raised |-> "ValueError", checks |-> <<>>, compliance_history |-> history]
  ELSE LET checks == compliance_checks(claims[claim_id], lfa)
       IN  [raised |-> "none", checks |-> checks,
            compliance_history |->
              StoreCheck(history, HistoryEntry(claim_id, today, checks))]

NonCompliant(checks) == SelectSeq(checks, LAMBDA c : c.status = NON_COMPLIANT)

\* risk_score and risk_factors of generate_ic_report
RiskAssessment(agent_claim, checks) ==
  LET funding == IF agent_claim.funded_amount > 50000
                 THEN [score |-> 2, factors |-> <<"High funding amount">>]
                 ELSE [score |-> 0, factors |-> <<>>]
      issues == IF NonCompliant(checks) # <<>>
                THEN [score |-> Len(NonCompliant(checks)) * 3,
                      factors |-> <<"compliance issues">>]
                ELSE [score |-> 0, factors |-> <<>>]
      litigation == IF agent_claim.status = LITIGATION
                    THEN [score |-> 2, factors |-> <<"Case in litigation">>]
                    ELSE [score |-> 0, factors |-> <<>>]
  IN  [risk_score |-> funding.score + issues.score + litigation.score,
       risk_factors |-> funding.factors \o issues.factors \o litigation.factors]

RiskRatingFromFour(risk_score) ==
  IF risk_score >= 4 THEN "High" ELSE IF risk_score >= 2 THEN "Medium" ELSE "Low"
RiskRating(risk_score) ==
  IF risk_score >= 5 THEN "High" ELSE IF risk_score >= 2 THEN "Medium" ELSE "Low"

\* claim_amount / funded_amount >= minimum: ZeroDivisionError on a zero divisor
RatioAtLeast(claim_amount, funded_amount, minimum) ==
  IF funded_amount = 0 THEN [raised |-> "ZeroDivisionError", ret |-> FALSE]
  ELSE [raised |-> "none", ret |-> claim_amount >= minimum * funded_amount]

\* round(claim_amount / funded_amount, 2) if funded_amount > 0 else 0, in hundredths
ReturnMultiple(claim_amount, funded_amount) ==
  IF funded_amount > 0 THEN (claim_amount * 100) \div funded_amount ELSE 0

\* self.lfa_terms and (claim_amount / funded_amount) >= minimum_return_multiple
MeetsMinimumReturn(agent_claim, lfa) ==
  IF ~lfa.loaded THEN [raised |-> "none", ret |-> FALSE]
  ELSE RatioAtLeast(agent_claim.claim_amount, agent_claim.funded_amount,
                    lfa.minimum_return_multiple)

\* (claim_amount / funded_amount if funded_amount > 0 else 0) >= minimum
GuardedRatioAtLeast(claim_amount, funded_amount, minimum) ==
  IF funded_amount > 0 THEN claim_amount >= minimum * funded_amount ELSE 0 >= minimum

_generate_ic_recommendation(agent_claim, checks, risk_rating, lfa) ==
  IF NonCompliant(checks) # <<>>
  THEN "HOLD - Address compliance issues before proceeding"
  ELSE IF risk_rating = "High"
  THEN "REVIEW - High risk claim requires additional due diligence"
  ELSE IF /\ lfa.loaded
          /\ GuardedRatioAtLeast(agent_claim.claim_amount, agent_claim.funded_amount,
                                 lfa.minimum_return_multiple)
  THEN "APPROVE - Claim meets investment criteria and compliance requirements"
  ELSE "REVIEW - Return multiple below minimum threshold"

NoReport ==
  [claim_details |-> [claim_id |-> "", status |-> ""],
   generated_at |-> 0,
   financial_analysis |-> [funded_amount |-> 0, claim_amount |-> 0, potential_return |-> 0,
                           return_multiple |-> 0, meets_minimum_return |-> FALSE],
   compliance_status |-> [overall_status |-> "", checks_performed |-> 0,
                          issues_identified |-> 0, detailed_checks |-> <<>>],
   risk_assessment |-> [risk_rating |-> "", risk_score |-> 0, risk_factors |-> <<>>,
                        mitigation_required |-> FALSE],
   recommendation |-> ""]

IcReport(agent_claim, lfa, today, checks) ==
  LET risk == RiskAssessment(agent_claim, checks)
      risk_rating == RiskRating(risk.risk_score)
  IN  [claim_details |-> [claim_id |-> agent_claim.claim_id, status |-> agent_claim.status],
       generated_at |-> today,
       financial_analysis |->
         [funded_amount |-> agent_claim.funded_amount,
          claim_amount |-> agent_claim.claim_amount,
          potential_return |-> agent_claim.claim_amount - agent_claim.funded_amount,
          return_multiple |-> ReturnMultiple(agent_claim.claim_amount,
                                             agent_claim.funded_amount),
          meets_minimum_return |-> MeetsMinimumReturn(agent_claim, lfa).ret],
       compliance_status |->
         [overall_status |-> IF \A i \in 1..Len(checks) : checks[i].status = COMPLIANT
                             THEN "Compliant" ELSE "Non-Compliant",
          checks_performed |-> Len(checks),
          issues_identified |-> Len(SelectSeq(checks, LAMBDA c : c.status # COMPLIANT)),
          detailed_checks |-> checks],
       risk_assessment |->
         [risk_rating |-> risk_rating, risk_score |-> risk.risk_score,
          risk_factors |-> risk.risk_factors,
          mitigation_required |-> risk.risk_score >= 5],
       recommendation |-> _generate_ic_recommendation(agent_claim, checks, risk_rating, lfa)]

\* the report returned, or the exception raised, and compliance_history after
generate_ic_report(claims, lfa, history, today, claim_id) ==
  IF ~claims[claim_id].ingested
  THEN [raised |-> "ValueError", report |-> NoReport, compliance_history |-> history]
  ELSE
    LET checked == check_lfa_compliance(claims, lfa, history, today, claim_id)
        agent_claim == claims[claim_id]
    IN  IF checked.raised # "none"
        THEN [raised |-> checked.raised, report |-> NoReport,
              compliance_history |-> checked.compliance_history]
        ELSE IF MeetsMinimumReturn(agent_claim, lfa).raised # "none"
        THEN [raised |-> MeetsMinimumReturn(agent_claim, lfa).raised, report |-> NoReport,
              compliance_history |-> checked.compliance_history]
        ELSE [raised |-> "none",
              report |-> IcReport(agent_claim, lfa, today, checked.checks),
              compliance_history |-> checked.compliance_history]

(***************************************************************************)
(* Calls in progress.  A worker runs one call on the shared validator; its *)
(* frame holds the locals of the call, and it reads self.rules and         *)
(* datetime.now() at the statements that read them in the code.            *)
(***************************************************************************)
Workers == {"w1", "w2", "w3", "w4"}

NoFrame ==
  [reasons |-> <<>>, warnings |-> <<>>, date_checks_passed |-> FALSE,
   product_type_eligible |-> FALSE, commission_threshold_met |-> FALSE,
   limitation_period_valid |-> FALSE, rate |-> 0, day |-> 0, half |-> 0]

Worker(op, pos, claim_data, args, frame, result) ==
  [op |-> op, pc |-> pos, claim_data |-> claim_data, args |-> args, frame |-> frame,
   result |-> result]

NoWorkers == [w \in Workers |-> Worker("", "idle", NoClaim, NoDbaArgs, NoFrame, NoEligibility)]

\* what a method of the validator leaves in self.rules: no method assigns to
\* self.rules or to a field of it
rules_learning_types(rules, product_type) ==
  [rules EXCEPT !.eligible_product_types = Append(@, Strip(Upper(product_type)))]
rules_after_check(rules, product_type) == rules

NotCalled == [day |-> 0, half |-> 0]

NoReturn ==
  [op |-> "", claim_id |-> "", raised |-> "not called", checks |-> <<>>,
   report |-> NoReport]

\* PCPFundingAgent.__init__
AgentConstructed ==
  /\ claims_data = [claim_id \in ClaimIds |-> NotIngested]
  /\ lfa_terms = NoLfaTerms
  /\ compliance_history = <<>>
  /\ returned = NoReturn

InitDba ==
  /\ pc = "call_dba"
  /\ dba_args \in DbaArgs
  /\ dba_result = NoDbaResult
  /\ clock = ToOrdinal(2026, 11, 5)
  /\ scheme_rules = FCASchemeRules
  /\ claim = NoClaim
  /\ eligibility = NoEligibility
  /\ time_of_day = 0
  /\ called_at = NotCalled
  /\ redress = NoRedress
  /\ redress_again = NoRedress
  /\ comparison = NoComparison
  /\ AgentConstructed
  /\ workers = NoWorkers

InitEligibility ==
  /\ pc = "call_check_eligibility"
  /\ claim \in ClaimRecords
  /\ scheme_rules \in RulesInUse
  /\ clock \in Clocks
  /\ eligibility = NoEligibility
  /\ dba_args = NoDbaArgs
  /\ dba_result = NoDbaResult
  /\ time_of_day = 0
  /\ called_at = NotCalled
  /\ redress = NoRedress
  /\ redress_again = NoRedress
  /\ comparison = NoComparison
  /\ AgentConstructed
  /\ workers = NoWorkers

InitRedress ==
  /\ pc = "call_calculate_redress"
  /\ claim \in RedressClaims
  /\ scheme_rules \in CappedRules
  /\ clock \in Clocks
  /\ time_of_day \in {0, 1}
  /\ called_at = NotCalled
  /\ redress = NoRedress
  /\ redress_again = NoRedress
  /\ comparison = NoComparison
  /\ eligibility = NoEligibility
  /\ dba_args = NoDbaArgs
  /\ dba_result = NoDbaResult
  /\ AgentConstructed
  /\ workers = NoWorkers

InitValidate ==
  /\ pc = "call_validate_claim"
  /\ claim \in ValidatedClaims
  /\ scheme_rules \in {FCASchemeRules, [FCASchemeRules EXCEPT !.max_redress_amount = Cap(250)]}
  /\ clock \in Clocks
  /\ time_of_day = 0
  /\ called_at = NotCalled
  /\ redress = NoRedress
  /\ redress_again = NoRedress
  /\ comparison = NoComparison
  /\ eligibility = NoEligibility
  /\ dba_args = NoDbaArgs
  /\ dba_result = NoDbaResult
  /\ AgentConstructed
  /\ workers = NoWorkers

Init == InitDba \/ InitEligibility \/ InitRedress \/ InitValidate

Distribute ==
  /\ pc = "call_dba"
  /\ dba_result' = calculate_dba_distribution(dba_args.net_dba_proceeds,
                                              dba_args.outstanding_costs_sum,
                                              dba_args.first_tier_funder_return,
                                              dba_args.distribution_costs_overrun)
  /\ pc' = "done_dba"
  /\ UNCHANGED <<clock, scheme_rules, dba_args, claim, eligibility,
                 time_of_day, called_at, redress, redress_again, comparison>>
  /\ UNCHANGED <<agent_vars, workers>>

CheckEligibility ==
  /\ pc = "call_check_eligibility"
  /\ eligibility' = check_eligibility(scheme_rules, clock, claim)
  /\ pc' = "done_check_eligibility"
  /\ UNCHANGED <<clock, scheme_rules, dba_args, dba_result, claim,
                 time_of_day, called_at, redress, redress_again, comparison>>
  /\ UNCHANGED <<agent_vars, workers>>

CalculateRedress ==
  /\ pc = "call_calculate_redress"
  /\ redress' = calculate_redress(scheme_rules, clock, time_of_day, claim)
  /\ called_at' = [day |-> clock, half |-> time_of_day]
  /\ pc' = "done_calculate_redress"
  /\ UNCHANGED <<clock, time_of_day, scheme_rules, dba_args, dba_result, claim,
                 eligibility, redress_again, comparison>>
  /\ UNCHANGED <<agent_vars, workers>>

\* half a day goes by between two calls
TimePasses ==
  /\ pc = "done_calculate_redress"
  /\ clock < called_at.day + MaxDaysLater
  /\ time_of_day' = 1 - time_of_day
  /\ clock' = IF time_of_day = 1 THEN clock + 1 ELSE clock
  /\ UNCHANGED <<pc, scheme_rules, dba_args, dba_result, claim, eligibility,
                 called_at, redress, redress_again, comparison>>
  /\ UNCHANGED <<agent_vars, workers>>

\* the same validator is called again with the same claim record
CalculateRedressAgain ==
  /\ pc = "done_calculate_redress"
  /\ redress_again' = calculate_redress(scheme_rules, clock, time_of_day, claim)
  /\ pc' = "done_calculate_redress_again"
  /\ UNCHANGED <<clock, time_of_day, scheme_rules, dba_args, dba_result, claim,
                 eligibility, called_at, redress, comparison>>
  /\ UNCHANGED <<agent_vars, workers>>

ValidateClaim ==
  /\ pc = "call_validate_claim"
  /\ eligibility' = check_eligibility(scheme_rules, clock, claim)
  /\ redress' = calculate_redress(scheme_rules, clock, time_of_day, claim)
  /\ comparison' = amount_comparison(claim, redress'.total_redress)
  /\ called_at' = [day |-> clock, half |-> time_of_day]
  /\ pc' = "done_validate_claim"
  /\ UNCHANGED <<clock, time_of_day, scheme_rules, dba_args, dba_result, claim,
                 redress_again>>
  /\ UNCHANGED <<agent_vars, workers>>

Next ==
  \/ Distribute
  \/ CheckEligibility
  \/ CalculateRedress
  \/ TimePasses
  \/ CalculateRedressAgain
  \/ ValidateClaim

Spec == Init /\ [][Next]_vars

(***************************************************************************)
(* A PCPFundingAgent in use: after construction its methods are called in  *)
(* any order, with any of the LFA documents and claim reports below.       *)
(***************************************************************************)
AllDocs == <<"claim_form", "lfa_signed", "insurance_policy">>

LfaData ==
  {LFATerms(50000, 2, "UK", TRUE), LFATerms(100000, 2, "UK", FALSE),
   LFATerms(100000, 2, "US", TRUE)}

Reports ==
  {ClaimData("C001", claim_amount, funded_amount, status, documentation_received) :
     claim_amount \in {90000}, funded_amount \in {0, 60000},
     status \in {"in_progress", LITIGATION},
     documentation_received \in {AllDocs, <<"claim_form">>}}
    \cup {ClaimData(claim_id, 90000, 40000, "in_progress", AllDocs) : claim_id \in ClaimIds}

validator_vars == <<pc, clock, scheme_rules, dba_args, dba_result, claim, eligibility,
                    time_of_day, called_at, redress, redress_again, comparison>>

InitAgent ==
  /\ pc = "agent"
  /\ clock = ToOrdinal(2026, 11, 5)
  /\ scheme_rules = FCASchemeRules
  /\ dba_args = NoDbaArgs
  /\ dba_result = NoDbaResult
  /\ claim = NoClaim
  /\ eligibility = NoEligibility
  /\ time_of_day = 0
  /\ called_at = NotCalled
  /\ redress = NoRedress
  /\ redress_again = NoRedress
  /\ comparison = NoComparison
  /\ AgentConstructed
  /\ workers = NoWorkers

Returned(op, claim_id, raised, checks, report) ==
  [op |-> op, claim_id |-> claim_id, raised |-> raised, checks |-> checks,
   report |-> report]

LoadLfa ==
  /\ pc = "agent"
  /\ \E lfa_data \in LfaData :
       /\ lfa_terms' = lfa_data
       /\ returned' = Returned("load_lfa", "", "none", <<>>, NoReport)
  /\ UNCHANGED <<claims_data, compliance_history>>
  /\ UNCHANGED <<validator_vars, workers>>

IngestClaimReport ==
  /\ pc = "agent"
  /\ \E report_data \in Reports :
       /\ claims_data' = [claims_data EXCEPT ![report_data.claim_id] = report_data]
       /\ returned' = Returned("ingest_claim_report", report_data.claim_id, "none",
                               <<>>, NoReport)
  /\ UNCHANGED <<lfa_terms, compliance_history>>
  /\ UNCHANGED <<validator_vars, workers>>

CheckLfaCompliance ==
  /\ pc = "agent"
  /\ Len(compliance_history) < MaxHistory
  /\ \E claim_id \in ClaimIds :
       LET result == check_lfa_compliance(claims_data, lfa_terms, compliance_history,
                                          clock, claim_id)
       IN  /\ compliance_history' = result.compliance_history
           /\ returned' = Returned("check_lfa_compliance", claim_id, result.raised,
                                   result.checks, NoReport)
  /\ UNCHANGED <<claims_data, lfa_terms>>
  /\ UNCHANGED <<validator_vars, workers>>

GenerateIcReport ==
  /\ pc = "agent"
  /\ Len(compliance_history) < MaxHistory
  /\ \E claim_id \in ClaimIds :
       LET result == generate_ic_report(claims_data, lfa_terms, compliance_history,
                                        clock, claim_id)
       IN  /\ compliance_history' = result.compliance_history
           /\ returned' = Returned("generate_ic_report", claim_id, result.raised, <<>>,
                                   result.report)
  /\ UNCHANGED <<claims_data, lfa_terms>>
  /\ UNCHANGED <<validator_vars, workers>>

AgentNext ==
  \/ LoadLfa
  \/ IngestClaimReport
  \/ CheckLfaCompliance
  \/ GenerateIcReport

AgentSpec == InitAgent /\ [][AgentNext]_vars

(***************************************************************************)
(* One validator shared by a pool of workers: two calls of                 *)
(* check_eligibility, one of calculate_redress and one of                  *)
(* calculate_dba_distribution, on claims of their own, interleaved         *)
(* statement group by statement group.  The calls fall within one day.     *)
(***************************************************************************)
PooledEligibilityClaims ==
  [agreement_date : {DateStr("%Y-%m-%d", 2019, 6, 15), DateStr("text", 0, 0, 0)},
   submission_date : {EmptyString},
   product_type : {PCP, <<"L", "E", "A", "S", "E">>},
   commission_pct_of_cost : {24, 50},
   commission_amount : {1200},
   total_cost_of_credit : {5000},
   loan_amount : {500},
   disclosure_adequate : {"Y"},
   consequential_losses : {0},
   claim_amount : {0},
   redress_calculated : {0}]

PooledRedressClaims ==
  {c \in RedressClaims : /\ c.commission_amount = 300
                         /\ c.consequential_losses = 0
                         /\ c.agreement_date \in {EmptyString, DateStr("%Y-%m-%d", 2019, 6, 15)}}

PooledDbaArgs ==
  {a \in DbaArgs : /\ a.net_dba_proceeds \in {20, 90}
                   /\ a.outstanding_costs_sum = 30
                   /\ a.first_tier_funder_return = 10
                   /\ a.distribution_costs_overrun = 10}

PooledRules ==
  {FCASchemeRules, CustomSchemeRules, [FCASchemeRules EXCEPT !.max_redress_amount = Cap(250)]}

unshared_vars == <<pc, clock, dba_args, dba_result, claim, eligibility, time_of_day,
                   called_at, redress, redress_again, comparison, agent_vars>>

InitPool ==
  /\ pc = "pool"
  /\ clock = ToOrdinal(2026, 11, 5)
  /\ time_of_day = 0
  /\ scheme_rules \in PooledRules
  /\ \E c1 \in PooledEligibilityClaims, c2 \in PooledEligibilityClaims,
        c3 \in PooledRedressClaims, a \in PooledDbaArgs :
       workers =
         [w \in Workers |->
            IF w = "w1"
            THEN Worker("check_eligibility", "date", c1, NoDbaArgs, NoFrame, NoEligibility)
            ELSE IF w = "w2"
            THEN Worker("check_eligibility", "date", c2, NoDbaArgs, NoFrame, NoEligibility)
            ELSE IF w = "w3"
            THEN Worker("calculate_redress", "basic", c3, NoDbaArgs, NoFrame, NoRedress)
            ELSE Worker("calculate_dba_distribution", "call", NoClaim, a, NoFrame,
                        NoDbaResult)]
  /\ dba_args = NoDbaArgs
  /\ dba_result = NoDbaResult
  /\ claim = NoClaim
  /\ eligibility = NoEligibility
  /\ called_at = NotCalled
  /\ redress = NoRedress
  /\ redress_again = NoRedress
  /\ comparison = NoComparison
  /\ AgentConstructed

At(w, op, pos) == workers[w].op = op /\ workers[w].pc = pos

\* the worker moves to pos with the sub-check's lists and its flag set
Checked1(w, pos, flag, c) ==
  [workers EXCEPT ![w].pc = pos,
                  ![w].frame = [@ EXCEPT ![flag] = c.ret, !.reasons = c.reasons,
                                          !.warnings = c.warnings]]

\* Check 1: Date eligibility
DateStep ==
  /\ \E w \in Workers :
       /\ At(w, "check_eligibility", "date")
       /\ workers' = Checked1(w, "product", "date_checks_passed",
                              _check_date_eligibility(scheme_rules, clock,
                                                      workers[w].claim_data.agreement_date,
                                                      <<>>, <<>>))
  /\ UNCHANGED <<scheme_rules, unshared_vars>>

\* Check 2: Product type eligibility
ProductStep ==
  /\ \E w \in Workers :
       /\ At(w, "check_eligibility", "product")
       /\ workers' = Checked1(w, "commission", "product_type_eligible",
                              _check_product_type(scheme_rules,
                                                  Upper(workers[w].claim_data.product_type),
                                                  workers[w].frame.reasons,
                                                  workers[w].frame.warnings))
       /\ scheme_rules' = rules_after_check(scheme_rules, workers[w].claim_data.product_type)
  /\ UNCHANGED unshared_vars

\* Check 3: Commission threshold
CommissionStep ==
  /\ \E w \in Workers :
       /\ At(w, "check_eligibility", "commission")
       /\ LET claim_data == workers[w].claim_data
              derived == DerivedCommissionPct(Pct(claim_data.commission_pct_of_cost, 1),
                                              claim_data.commission_amount,
                                              claim_data.total_cost_of_credit)
          IN  workers' = Checked1(w, "limitation", "commission_threshold_met",
                                  _check_commission_threshold(scheme_rules, derived.pct,
                                                              claim_data.disclosure_adequate,
                                                              workers[w].frame.reasons,
                                                              workers[w].frame.warnings))
  /\ UNCHANGED <<scheme_rules, unshared_vars>>

\* Check 4: Limitation period
LimitationStep ==
  /\ \E w \in Workers :
       /\ At(w, "check_eligibility", "limitation")
       /\ workers' = Checked1(w, "verdict", "limitation_period_valid",
                              _check_limitation_period(scheme_rules, clock,
                                                       workers[w].claim_data.agreement_date,
                                                       workers[w].claim_data.submission_date,
                                                       workers[w].frame.reasons,
                                                       workers[w].frame.warnings))
  /\ UNCHANGED <<scheme_rules, unshared_vars>>

\* Checks 5 and 6, the verdict and the ClaimEligibility returned
VerdictStep ==
  /\ \E w \in Workers :
       /\ At(w, "check_eligibility", "verdict")
       /\ LET claim_data == workers[w].claim_data
              frame == workers[w].frame
              w5 == IF claim_data.loan_amount > 0 /\ claim_data.loan_amount < 1000
                    THEN Append(frame.warnings, "Low loan amount - verify claim is worthwhile")
                    ELSE frame.warnings
              w6 == IF claim_data.disclosure_adequate = "Y"
                    THEN Append(w5, "Claimant indicated disclosure was adequate - review evidence")
                    ELSE w5
              verdict == Verdict(AllCritical(frame.date_checks_passed,
                                             frame.product_type_eligible,
                                             frame.limitation_period_valid),
                                 frame.commission_threshold_met, w6)
          IN  workers' =
                [workers EXCEPT
                   ![w].pc = "done",
                   ![w].result =
                     [raised |-> "none",
                      status |-> verdict.status,
                      eligible |-> verdict.eligible,
                      reasons |-> frame.reasons,
                      warnings |-> verdict.warnings,
                      date_checks_passed |-> frame.date_checks_passed,
                      product_type_eligible |-> frame.product_type_eligible,
                      commission_threshold_met |-> frame.commission_threshold_met,
                      limitation_period_valid |-> frame.limitation_period_valid,
                      recommendation |-> verdict.recommendation]]
  /\ UNCHANGED <<scheme_rules, unshared_vars>>

\* Method 1: the basic redress, from the claim alone
RedressBasicStep ==
  /\ \E w \in Workers :
       /\ At(w, "calculate_redress", "basic")
       /\ workers' = [workers EXCEPT ![w].pc = "interest"]
  /\ UNCHANGED <<scheme_rules, unshared_vars>>

\* Method 2: the interest, which reads the rate of the rules and the clock
RedressInterestStep ==
  /\ \E w \in Workers :
       /\ At(w, "calculate_redress", "interest")
       /\ workers' = [workers EXCEPT
                        ![w].pc = "total",
                        ![w].frame = [@ EXCEPT !.rate = scheme_rules.statutory_interest_rate,
                                                !.day = clock, !.half = time_of_day]]
  /\ UNCHANGED <<scheme_rules, unshared_vars>>

\* the total, which reads the cap of the rules, and the RedressCalculation returned
RedressTotalStep ==
  /\ \E w \in Workers :
       /\ At(w, "calculate_redress", "total")
       /\ workers' =
            [workers EXCEPT
               ![w].pc = "done",
               ![w].result =
                 calculate_redress([scheme_rules EXCEPT
                                      !.statutory_interest_rate = workers[w].frame.rate],
                                   workers[w].frame.day, workers[w].frame.half,
                                   workers[w].claim_data)]
  /\ UNCHANGED <<scheme_rules, unshared_vars>>

DbaStep ==
  /\ \E w \in Workers :
       /\ At(w, "calculate_dba_distribution", "call")
       /\ workers' =
            [workers EXCEPT
               ![w].pc = "done",
               ![w].result =
                 calculate_dba_distribution(workers[w].args.net_dba_proceeds,
                                            workers[w].args.outstanding_costs_sum,
                                            workers[w].args.first_tier_funder_return,
                                            workers[w].args.distribution_costs_overrun)]
  /\ UNCHANGED <<scheme_rules, unshared_vars>>

PoolNext ==
  \/ DateStep
  \/ ProductStep
  \/ CommissionStep
  \/ LimitationStep
  \/ VerdictStep
  \/ RedressBasicStep
  \/ RedressInterestStep
  \/ RedressTotalStep
  \/ DbaStep

PoolSpec == InitPool /\ [][PoolNext]_vars

(***************************************************************************)
(* Properties of calculate_dba_distribution                                *)
(***************************************************************************)
DbaReturned == pc = "done_dba"

NonNegativeTiers ==
  /\ dba_args.outstanding_costs_sum >= 0
  /\ dba_args.first_tier_funder_return >= 0
  /\ dba_args.distribution_costs_overrun >= 0

NonNegativeArgs == dba_args.net_dba_proceeds >= 0 /\ NonNegativeTiers

SharesTotal ==
  dba_result.funder_share + dba_result.firm_share + dba_result.claims_processor_share

\* C1: for non-negative gross proceeds and non-negative nominal tier amounts,
\* the three shares of the result add up to the gross proceeds.
C1_Conservation ==
  (DbaReturned /\ NonNegativeArgs) =>
    (dba_result.raised = "none" /\ SharesTotal = dba_args.net_dba_proceeds)

\* C1 witness: a call in which every tier and the final split received money.
C1_Witness ==
  /\ DbaReturned /\ NonNegativeArgs
  /\ dba_result.outstanding_costs_sum > 0
  /\ dba_result.first_tier_funder_return > 0
  /\ dba_result.distribution_costs_overrun > 0
  /\ dba_result.net_proceeds > 0
  /\ SharesTotal = dba_args.net_dba_proceeds

FirmPortion == (dba_result.net_proceeds * FirmPct) \div 100

\* C2: the claims processor receives half of the firm's 20% of net proceeds
\* and nothing of the distribution costs overrun, which stays with the firm.
C2_ProcessorShareFromNetOnly ==
  (DbaReturned /\ NonNegativeArgs) =>
    /\ dba_result.claims_processor_share = (FirmPortion * ProcessorPct) \div 100
    /\ dba_result.firm_share =
         dba_result.distribution_costs_overrun + FirmPortion
           - dba_result.claims_processor_share

\* C4: a call with negative gross proceeds ends in a validation error, not in
\* a returned distribution.
C4_NegativeGrossRejected ==
  (DbaReturned /\ dba_args.net_dba_proceeds < 0) => dba_result.raised # "none"

NoNegativeAmount ==
  /\ dba_result.outstanding_costs_sum >= 0
  /\ dba_result.first_tier_funder_return >= 0
  /\ dba_result.distribution_costs_overrun >= 0
  /\ dba_result.net_proceeds >= 0
  /\ dba_result.funder_share >= 0
  /\ dba_result.firm_share >= 0
  /\ dba_result.claims_processor_share >= 0

\* C5: for non-negative gross proceeds and nominal tier amounts, no amount of
\* the result is negative.
C5_NoNegativeAmount == (DbaReturned /\ NonNegativeArgs) => NoNegativeAmount

\* C5 witness: the proceeds run out inside the overrun tier, so that the firm
\* is paid from the overrun alone and nothing is left to split.
C5_Witness ==
  /\ DbaReturned /\ NonNegativeArgs
  /\ dba_result.distribution_costs_overrun > 0
  /\ dba_result.distribution_costs_overrun < dba_args.distribution_costs_overrun
  /\ dba_result.net_proceeds = 0
  /\ NoNegativeAmount

TiersWithinNominal ==
  /\ dba_result.outstanding_costs_sum <= dba_args.outstanding_costs_sum
  /\ dba_result.first_tier_funder_return <= dba_args.first_tier_funder_return
  /\ dba_result.distribution_costs_overrun <= dba_args.distribution_costs_overrun

\* C6: for non-negative gross proceeds, each priority tier is paid at most its
\* nominal amount.
C6_TierAtMostNominal ==
  (DbaReturned /\ dba_args.net_dba_proceeds >= 0) => TiersWithinNominal

\* C6 witness: proceeds larger than the three nominal amounts together, each
\* tier stopping at its nominal amount.
C6_Witness ==
  /\ DbaReturned /\ NonNegativeArgs
  /\ dba_args.net_dba_proceeds >
       dba_args.outstanding_costs_sum + dba_args.first_tier_funder_return
         + dba_args.distribution_costs_overrun
  /\ dba_args.outstanding_costs_sum > 0
  /\ dba_args.first_tier_funder_return > 0
  /\ dba_args.distribution_costs_overrun > 0
  /\ TiersWithinNominal

OnlyOutstandingCostsPaid ==
  /\ dba_result.outstanding_costs_sum = dba_args.net_dba_proceeds
  /\ dba_result.funder_share = dba_args.net_dba_proceeds
  /\ dba_result.first_tier_funder_return = 0
  /\ dba_result.distribution_costs_overrun = 0
  /\ dba_result.net_proceeds = 0
  /\ dba_result.firm_share = 0
  /\ dba_result.claims_processor_share = 0

\* C7 as stated: when 0 <= gross proceeds <= outstanding costs sum, whatever
\* the two later tiers claim, the whole of the proceeds goes to the outstanding
\* costs tier (and so to the funder) and every other amount is 0.
C7_InsufficientProceedsAnyTiers ==
  (/\ DbaReturned
   /\ dba_args.net_dba_proceeds >= 0
   /\ dba_args.net_dba_proceeds <= dba_args.outstanding_costs_sum) =>
    OnlyOutstandingCostsPaid

\* C7: when 0 <= gross proceeds <= outstanding costs sum and the first tier
\* funder return and the distribution costs overrun are not negative, the
\* whole of the proceeds goes to the outstanding costs tier (and so to the
\* funder) and every other amount is 0; with gross proceeds 0 every share is 0.
C7_InsufficientProceeds ==
  (/\ DbaReturned
   /\ dba_args.net_dba_proceeds >= 0
   /\ dba_args.net_dba_proceeds <= dba_args.outstanding_costs_sum
   /\ dba_args.first_tier_funder_return >= 0
   /\ dba_args.distribution_costs_overrun >= 0) =>
    OnlyOutstandingCostsPaid

\* C7 witness: positive proceeds short of the outstanding costs sum, with
\* later tiers that claim money and receive none.
C7_Witness ==
  /\ DbaReturned
  /\ dba_args.net_dba_proceeds > 0
  /\ dba_args.net_dba_proceeds < dba_args.outstanding_costs_sum
  /\ dba_args.first_tier_funder_return > 0
  /\ dba_args.distribution_costs_overrun > 0
  /\ OnlyOutstandingCostsPaid

(***************************************************************************)
(* Properties of FCARedressValidator.check_eligibility                     *)
(***************************************************************************)
EligibilityReturned == pc = "done_check_eligibility"

\* C3: the verdict is ELIGIBLE exactly when the four checks pass,
\* REQUIRES_REVIEW exactly when only the commission check fails of the four,
\* and INELIGIBLE in every other case.
C3_VerdictComposition ==
  EligibilityReturned =>
    LET critical == /\ eligibility.date_checks_passed
                    /\ eligibility.product_type_eligible
                    /\ eligibility.limitation_period_valid
        commission == eligibility.commission_threshold_met
    IN  /\ eligibility.status \in {"ELIGIBLE", "REQUIRES_REVIEW", "INELIGIBLE"}
        /\ (eligibility.status = "ELIGIBLE") <=> (critical /\ commission)
        /\ (eligibility.status = "REQUIRES_REVIEW") <=> (critical /\ ~commission)
        /\ (eligibility.status = "INELIGIBLE") <=> ~critical

\* C3 witness: a claim that fails the commission check only, and is sent to
\* review.
C3_Witness ==
  /\ EligibilityReturned
  /\ eligibility.date_checks_passed
  /\ eligibility.product_type_eligible
  /\ eligibility.limitation_period_valid
  /\ ~eligibility.commission_threshold_met
  /\ eligibility.status = "REQUIRES_REVIEW"

\* C8: limitation_period_valid is true in every result, so a claim is
\* INELIGIBLE only if the date check or the product-type check failed.
C8_LimitationNeverBlocks ==
  EligibilityReturned =>
    /\ eligibility.limitation_period_valid
    /\ (eligibility.status = "INELIGIBLE") =>
         (~eligibility.date_checks_passed \/ ~eligibility.product_type_eligible)

\* C8 witness: agreement and submission more than limitation_period_years
\* apart, reported in the reasons, and the claim is ELIGIBLE all the same.
C8_Witness ==
  /\ EligibilityReturned
  /\ InList("Limitation: years since agreement", eligibility.reasons)
  /\ eligibility.limitation_period_valid
  /\ eligibility.status = "ELIGIBLE"

\* the date written in a date string, when it is written in an accepted layout
Parses(s) ==
  /\ s.fmt \in {"%Y-%m-%d", "%d/%m/%Y", "%d-%m-%Y"}
  /\ IsCalendarDate(s.y, s.m, s.d)

\* calendar order of the dates written in two date strings
NotAfter(a, b) ==
  \/ a.y < b.y
  \/ a.y = b.y /\ a.m < b.m
  \/ a.y = b.y /\ a.m = b.m /\ a.d <= b.d

SameDay(a, b) == a.y = b.y /\ a.m = b.m /\ a.d = b.d

\* C9: the date check passes exactly when the agreement date parses and
\* min_date <= agreement_date <= max_date, both ends included.
C9_DateWindowInclusive ==
  EligibilityReturned =>
    (eligibility.date_checks_passed <=>
       /\ Parses(claim.agreement_date)
       /\ NotAfter(scheme_rules.agreement_start_date_min, claim.agreement_date)
       /\ NotAfter(claim.agreement_date, scheme_rules.agreement_start_date_max))

\* C9 witness: an agreement dated exactly on agreement_start_date_max passes.
C9_Witness ==
  /\ EligibilityReturned
  /\ Parses(claim.agreement_date)
  /\ SameDay(claim.agreement_date, scheme_rules.agreement_start_date_max)
  /\ eligibility.date_checks_passed

DateProblemReported ==
  \/ InList("Agreement date not provided", eligibility.reasons)
  \/ InList("Invalid agreement date format", eligibility.reasons)

\* C10: when the agreement date is missing or in none of the accepted formats,
\* check_eligibility returns normally with date_checks_passed false, a reason
\* that names the date problem, and status INELIGIBLE.
C10_FailClosedDates ==
  (EligibilityReturned /\ ~Parses(claim.agreement_date)) =>
    /\ eligibility.raised = "none"
    /\ ~eligibility.date_checks_passed
    /\ DateProblemReported
    /\ eligibility.status = "INELIGIBLE"

\* C10 witness: a date that no format accepts on a claim whose product type
\* and commission pass.
C10_Witness ==
  /\ EligibilityReturned
  /\ claim.agreement_date # EmptyString
  /\ ~Parses(claim.agreement_date)
  /\ eligibility.product_type_eligible
  /\ eligibility.commission_threshold_met
  /\ InList("Invalid agreement date format", eligibility.reasons)
  /\ eligibility.status = "INELIGIBLE"

CommissionNotSupplied == claim.commission_pct_of_cost = 0

\* C11: when no commission percentage is supplied and total_cost_of_credit is
\* 0, the division by the cost of credit is not performed (no
\* ZeroDivisionError), the commission check fails with the 'cannot verify'
\* warning and the verdict is not ELIGIBLE.
C11_NoDivisionByZeroCost ==
  (EligibilityReturned /\ CommissionNotSupplied /\ claim.total_cost_of_credit = 0) =>
    /\ eligibility.raised = "none"
    /\ ~eligibility.commission_threshold_met
    /\ InList("Commission percentage not available - cannot verify Plevin threshold",
              eligibility.warnings)
    /\ eligibility.status # "ELIGIBLE"

\* C11 witness: a commission amount with a zero cost of credit on a claim that
\* passes the other checks, and is sent to review.
C11_Witness ==
  /\ EligibilityReturned /\ CommissionNotSupplied
  /\ claim.commission_amount > 0
  /\ claim.total_cost_of_credit = 0
  /\ eligibility.date_checks_passed
  /\ eligibility.product_type_eligible
  /\ eligibility.raised = "none"
  /\ eligibility.status = "REQUIRES_REVIEW"

\* the commission percentage of the claim is at least t percent: the supplied
\* percentage or, when none is supplied, commission_amount over
\* total_cost_of_credit
CommissionAtLeast(t) ==
  IF ~CommissionNotSupplied THEN claim.commission_pct_of_cost >= t
  ELSE /\ claim.commission_amount > 0
       /\ claim.total_cost_of_credit > 0
       /\ claim.commission_amount * 100 >= t * claim.total_cost_of_credit

\* C12: the commission check passes exactly when the commission percentage
\* (supplied, or derived from commission_amount and total_cost_of_credit) is
\* at least plevin_threshold, the threshold itself included.
C12_CommissionThresholdInclusive ==
  EligibilityReturned =>
    (eligibility.commission_threshold_met <=>
       CommissionAtLeast(scheme_rules.plevin_threshold))

\* C12 witness: commission 1200 on a cost of credit of 5000 (24%) under the
\* 50% threshold: the check fails and the claim is sent to review.
C12_Witness ==
  /\ EligibilityReturned /\ CommissionNotSupplied
  /\ claim.commission_amount = 1200
  /\ claim.total_cost_of_credit = 5000
  /\ scheme_rules.plevin_threshold = 50
  /\ ~eligibility.commission_threshold_met
  /\ eligibility.status = "REQUIRES_REVIEW"

\* C13: a product type that is absent, empty, or empty once upper-cased and
\* stripped passes the product-type check with the 'assuming eligible' warning
\* and without a failure reason.
C13_EmptyProductTypePasses ==
  (EligibilityReturned /\ Strip(Upper(claim.product_type)) = <<>>) =>
    /\ eligibility.product_type_eligible
    /\ InList("Product type not specified - assuming eligible", eligibility.warnings)
    /\ ~InList("Product type not covered by FCA scheme", eligibility.reasons)

(***************************************************************************)
(* Properties of FCARedressValidator.calculate_redress                     *)
(***************************************************************************)
\* redress holds the result of the call made at called_at
RedressReturned ==
  pc \in {"done_calculate_redress", "done_calculate_redress_again", "done_validate_claim"}

ComponentsTotal ==
  redress.base_redress_amount + redress.statutory_interest
    + redress.distress_inconvenience + redress.consequential_losses

CapSet == scheme_rules.max_redress_amount.set
CapAmount == Money(scheme_rules.max_redress_amount.amount)

\* C14: when no cap applies (none is set, or the sum does not exceed it) the
\* total is base + interest + distress + consequential losses, the base is
\* half the commission amount and the distress award is 150.
C14_TotalIsSumOfComponents ==
  (RedressReturned /\ (~CapSet \/ ComponentsTotal <= CapAmount)) =>
    /\ redress.total_redress = ComponentsTotal
    /\ 2 * redress.base_redress_amount = Money(claim.commission_amount)
    /\ redress.distress_inconvenience = Money(150)

\* C14 witness: an uncapped calculation with interest and consequential losses.
C14_Witness ==
  /\ RedressReturned /\ ~CapSet
  /\ redress.base_redress_amount > 0
  /\ redress.statutory_interest > 0
  /\ redress.consequential_losses > 0
  /\ redress.total_redress = ComponentsTotal

\* C15: whenever max_redress_amount is set, to any number including 0, the
\* total returned is not greater than it.
C15_TotalWithinCap ==
  (RedressReturned /\ CapSet) => redress.total_redress <= CapAmount

\* the result of the same call under the same rules without a cap
Uncapped ==
  calculate_redress([scheme_rules EXCEPT !.max_redress_amount = NoCap],
                    called_at.day, called_at.half, claim)

\* C16: the cap changes the total only: base, interest, distress award,
\* consequential losses and the breakdown are those of the calculation made
\* without a cap for the same claim and clock.
C16_CapChangesOnlyTotal ==
  RedressReturned =>
    /\ redress.base_redress_amount = Uncapped.base_redress_amount
    /\ redress.statutory_interest = Uncapped.statutory_interest
    /\ redress.distress_inconvenience = Uncapped.distress_inconvenience
    /\ redress.consequential_losses = Uncapped.consequential_losses
    /\ redress.breakdown = Uncapped.breakdown

\* C16 witness: a total that the cap has cut, with the components of the
\* uncapped calculation.
C16_Witness ==
  /\ RedressReturned /\ CapSet
  /\ InList("Total capped at scheme maximum", redress.calculation_notes)
  /\ redress.total_redress < Uncapped.total_redress
  /\ redress.base_redress_amount = Uncapped.base_redress_amount
  /\ redress.statutory_interest # 0
  /\ redress.breakdown = Uncapped.breakdown

HasEntry(breakdown, key) == \E i \in 1..Len(breakdown) : breakdown[i].key = key

\* C17: interest is computed only when the agreement date parses; when it is
\* missing, empty or unparseable the interest is 0 and the notes say that it
\* was not calculated.
C17_InterestOnlyForParsedDate ==
  RedressReturned =>
    IF Parses(claim.agreement_date)
    THEN HasEntry(redress.breakdown, "statutory_interest")
    ELSE /\ redress.statutory_interest = 0
         /\ ~HasEntry(redress.breakdown, "statutory_interest")
         /\ InList("Could not calculate statutory interest", redress.calculation_notes)

CalledAgain == pc = "done_calculate_redress_again"

ValidateReturned == pc = "done_validate_claim"

\* C19 as stated: variance is claimed amount - total redress for every claimed
\* amount, 0 and absent included, and the percentage is variance over total
\* redress times 100.
C19_VarianceOfEveryAmount ==
  ValidateReturned =>
    /\ comparison.variance = Money(comparison.claimed_amount) - redress.total_redress
    /\ redress.total_redress # 0 =>
         comparison.variance_percentage =
           Pct(comparison.variance * 100, redress.total_redress)

\* C19: variance is claimed amount - total redress when the claimed amount is
\* positive and 0 when it is 0 or absent; the percentage is variance over total
\* redress times 100 when the total is positive and 0 otherwise.
C19_VarianceOfPositiveAmount ==
  ValidateReturned =>
    /\ comparison.fca_calculated_amount = redress.total_redress
    /\ comparison.variance =
         IF comparison.claimed_amount > 0
         THEN Money(comparison.claimed_amount) - redress.total_redress
         ELSE 0
    /\ comparison.variance_percentage =
         IF redress.total_redress > 0
         THEN Pct(comparison.variance * 100, redress.total_redress)
         ELSE Pct(0, 1)

\* C19 witness: no claimed amount on a claim with a positive total: the
\* variance is 0, not minus the total.
C19_Witness ==
  /\ ValidateReturned
  /\ claim.claim_amount = 0 /\ claim.redress_calculated = 0
  /\ redress.total_redress > 0
  /\ comparison.variance = 0
  /\ comparison.variance_percentage.num = 0

AlignsAssessment == "Claimed amount aligns with FCA calculation"
HigherAssessment == "Claimed amount higher than FCA calculation - review justification"

\* C20: the assessment is 'aligns' exactly when -10 < variance_pct < 10, so
\* never at exactly 10% or -10%, and it is 'claimed higher' whenever
\* variance_pct > 10.
C20_AlignsBelowTenPercent ==
  ValidateReturned =>
    LET pct == comparison.variance_percentage
    IN  /\ (comparison.assessment = AlignsAssessment) <=>
             (-10 * pct.den < pct.num /\ pct.num < 10 * pct.den)
        /\ (pct.num > 10 * pct.den) => (comparison.assessment = HigherAssessment)

\* C20 witness: a claimed amount exactly 10% above the total redress, which is
\* not assessed as aligned.
C20_Witness ==
  /\ ValidateReturned
  /\ comparison.variance_percentage.num = 10 * comparison.variance_percentage.den
  /\ comparison.variance > 0
  /\ comparison.assessment # AlignsAssessment

(***************************************************************************)
(* The advisory inputs of check_eligibility                                *)
(***************************************************************************)
LowLoanWarning == "Low loan amount - verify claim is worthwhile"
DisclosureWarning == "Claimant indicated disclosure was adequate - review evidence"

\* what check_eligibility returns for the claim with other advisory inputs
WithAdvisory(loan_amount, disclosure_adequate) ==
  check_eligibility(scheme_rules, clock,
                    [claim EXCEPT !.loan_amount = loan_amount,
                                  !.disclosure_adequate = disclosure_adequate])

SameDecision(a, b) ==
  /\ a.raised = b.raised
  /\ a.status = b.status
  /\ a.eligible = b.eligible
  /\ a.date_checks_passed = b.date_checks_passed
  /\ a.product_type_eligible = b.product_type_eligible
  /\ a.commission_threshold_met = b.commission_threshold_met
  /\ a.limitation_period_valid = b.limitation_period_valid

\* C23: every claim gets the status and the four sub-check flags of the claim
\* that differs from it only in having no loan_amount and disclosure 'N', so
\* two claims that differ only in these two inputs get the same status and
\* flags; the low-loan warning is
\* there exactly for 0 < loan_amount < 1000 and the disclosure warning exactly
\* for disclosure_adequate = 'Y', whatever the verdict.
C23_AdvisoryInputsDoNotDecide ==
  EligibilityReturned =>
    /\ SameDecision(eligibility, WithAdvisory(0, "N"))
    /\ InList(LowLoanWarning, eligibility.warnings)
         <=> (claim.loan_amount > 0 /\ claim.loan_amount < 1000)
    /\ InList(DisclosureWarning, eligibility.warnings)
         <=> (claim.disclosure_adequate = "Y")

\* C23 witness: an approved claim that carries both advisory warnings, and
\* whose commission reaches the threshold, so that disclosure could matter.
C23_Witness ==
  /\ EligibilityReturned
  /\ eligibility.status = "ELIGIBLE"
  /\ claim.disclosure_adequate = "Y"
  /\ InList(LowLoanWarning, eligibility.warnings)
  /\ InList(DisclosureWarning, eligibility.warnings)
  /\ SameDecision(eligibility, WithAdvisory(2000, "N"))

(***************************************************************************)
(* The order of the waterfall tiers                                        *)
(***************************************************************************)
PaidInFull(tier) == dba_result[tier] = dba_args[tier]

StrictPriority ==
  /\ dba_result.first_tier_funder_return # 0 => PaidInFull("outstanding_costs_sum")
  /\ dba_result.distribution_costs_overrun # 0 =>
       PaidInFull("outstanding_costs_sum") /\ PaidInFull("first_tier_funder_return")
  /\ dba_result.net_proceeds > 0 =>
       /\ PaidInFull("outstanding_costs_sum")
       /\ PaidInFull("first_tier_funder_return")
       /\ PaidInFull("distribution_costs_overrun")
       /\ dba_result.net_proceeds =
            dba_args.net_dba_proceeds - dba_args.outstanding_costs_sum
              - dba_args.first_tier_funder_return - dba_args.distribution_costs_overrun

\* C24 as stated: for gross proceeds >= 0, whatever the tiers claim, a tier is
\* paid a non-zero amount only if every earlier tier was paid in full, and net
\* proceeds are positive only if the three tiers were paid in full, and are
\* then the gross proceeds minus the three nominal amounts.
C24_StrictPriorityAnyTiers ==
  (DbaReturned /\ dba_args.net_dba_proceeds >= 0) => StrictPriority

\* C24: for gross proceeds >= 0 and tiers that claim non-negative amounts, a
\* tier is paid a non-zero amount only if every earlier tier was paid in full,
\* and net proceeds are positive only if the three tiers were paid in full, and
\* are then the gross proceeds minus the three nominal amounts.
C24_StrictPriority ==
  (DbaReturned /\ NonNegativeArgs) => StrictPriority

\* C24 witness: the proceeds run out in the second tier: the first is paid in
\* full, the second in part, the third, which claims money, gets nothing.
C24_Witness ==
  /\ DbaReturned /\ NonNegativeArgs
  /\ dba_args.outstanding_costs_sum > 0 /\ PaidInFull("outstanding_costs_sum")
  /\ dba_result.first_tier_funder_return > 0
  /\ ~PaidInFull("first_tier_funder_return")
  /\ dba_args.distribution_costs_overrun > 0
  /\ dba_result.distribution_costs_overrun = 0
  /\ dba_result.net_proceeds = 0
  /\ StrictPriority

(***************************************************************************)
(* Normalisation of the product type                                       *)
(***************************************************************************)
LongName(abbreviation) ==
  IF abbreviation = PCP THEN PERSONAL_CONTRACT_PURCHASE
  ELSE IF abbreviation = HP THEN HIRE_PURCHASE
  ELSE IF abbreviation = CS THEN CONDITIONAL_SALE
  ELSE IF abbreviation = PCH THEN PERSONAL_CONTRACT_HIRE
  ELSE abbreviation

\* the type names an eligible type, by its abbreviation or by its long name,
\* in any letter case and with any surrounding whitespace
NamesEligibleType(product_type) ==
  \E i \in 1..Len(scheme_rules.eligible_product_types) :
    LET eligible_type == scheme_rules.eligible_product_types[i]
    IN  Strip(Upper(product_type)) \in {eligible_type, LongName(eligible_type)}

\* the product-type check of check_eligibility on another spelling
ProductCheck(product_type) ==
  _check_product_type(scheme_rules, Upper(product_type), <<>>, <<>>).ret

Spellings(product_type) ==
  {Upper(product_type), <<" ">> \o product_type \o <<" ", " ">>}
    \cup (IF Strip(product_type) # <<>> THEN {Strip(product_type)} ELSE {})

\* C25: for a non-empty product type the check passes exactly when the type,
\* upper-cased, trimmed and with a long name replaced by its abbreviation, is
\* one of eligible_product_types, and the result is the same for the type in
\* upper case, with whitespace added around it and with its whitespace trimmed.
C25_ProductTypeNormalised ==
  (EligibilityReturned /\ claim.product_type # <<>>) =>
    /\ eligibility.product_type_eligible <=> NamesEligibleType(claim.product_type)
    /\ \A spelling \in Spellings(claim.product_type) :
         ProductCheck(spelling) = eligibility.product_type_eligible

\* C25 witness: a long name in lower case is accepted as its abbreviation.
C25_Witness ==
  /\ EligibilityReturned
  /\ Upper(claim.product_type) = HIRE_PURCHASE
  /\ claim.product_type # HIRE_PURCHASE
  /\ eligibility.product_type_eligible
  /\ ProductCheck(<<" ">> \o claim.product_type \o <<" ">>)

(***************************************************************************)
(* The 'claimed lower' assessment                                          *)
(***************************************************************************)
LowerAssessment == "Claimed amount lower than FCA calculation - may be under-claimed"

\* C26: the assessment is 'claimed lower, may be under-claimed' only when
\* variance_pct < 0, that is when the claimed amount is below the computed
\* redress; an amount above the computed redress is never assessed as lower.
C26_LowerOnlyBelowCalculation ==
  (ValidateReturned /\ comparison.assessment = LowerAssessment) =>
    /\ comparison.variance_percentage.num < 0
    /\ Money(comparison.claimed_amount) < redress.total_redress

(***************************************************************************)
(* Consistency of a ClaimEligibility                                       *)
(***************************************************************************)
ApproveRecommendation == "APPROVE - Claim meets FCA eligibility criteria"
ReviewRecommendation ==
  "REVIEW - Commission below Plevin threshold but may have other grounds"
RejectRecommendation == "REJECT - Claim does not meet FCA eligibility criteria"

EligibilityValue == pc \in {"done_check_eligibility", "done_validate_claim"}

\* C27: in every ClaimEligibility returned, eligible is true exactly when the
\* status is ELIGIBLE, and the recommendation is the APPROVE text for
\* ELIGIBLE, the REVIEW text for REQUIRES_REVIEW and the REJECT text for
\* INELIGIBLE.
C27_EligibilityConsistent ==
  (EligibilityValue /\ eligibility.raised = "none") =>
    \/ /\ eligibility.status = "ELIGIBLE" /\ eligibility.eligible
       /\ eligibility.recommendation = ApproveRecommendation
    \/ /\ eligibility.status = "REQUIRES_REVIEW" /\ ~eligibility.eligible
       /\ eligibility.recommendation = ReviewRecommendation
    \/ /\ eligibility.status = "INELIGIBLE" /\ ~eligibility.eligible
       /\ eligibility.recommendation = RejectRecommendation

\* C27 witness: a claim sent to review is not eligible and is recommended for
\* review.
C27_Witness ==
  /\ EligibilityValue
  /\ eligibility.status = "REQUIRES_REVIEW"
  /\ ~eligibility.eligible
  /\ eligibility.recommendation = ReviewRecommendation

(***************************************************************************)
(* Properties of PCPFundingAgent                                           *)
(***************************************************************************)
IcReportCalled == returned.op = "generate_ic_report"
IcReportReturned == IcReportCalled /\ returned.raised = "none"

\* C28: with LFA terms loaded, generate_ic_report raises nothing for an
\* ingested claim, and for a claim whose funded_amount is 0 it reports a
\* return_multiple of 0.
C28_IcReportCompletes ==
  (/\ IcReportCalled
   /\ lfa_terms.loaded
   /\ claims_data[returned.claim_id].ingested) =>
    /\ returned.raised = "none"
    /\ claims_data[returned.claim_id].funded_amount = 0 =>
         returned.report.financial_analysis.return_multiple = 0

IsPrefix(s, t) == Len(s) <= Len(t) /\ SubSeq(t, 1, Len(s)) = s

\* the step is a call of check_lfa_compliance that raised or returned
CheckCallRaised == returned'.op = "check_lfa_compliance" /\ returned'.raised = "ValueError"
CheckCallReturned == returned'.op = "check_lfa_compliance" /\ returned'.raised = "none"

\* C29: check_lfa_compliance raises ValueError exactly when no LFA terms are
\* loaded or the claim id was never ingested, and then leaves
\* compliance_history and claims_data as they were; a call that returns
\* appends one entry, for its claim and with the checks it returns; and every
\* step of every operation keeps the earlier entries where and as they were.
C29_HistoryAppendOnly ==
  [][/\ IsPrefix(compliance_history, compliance_history')
     /\ returned'.op = "check_lfa_compliance" =>
          /\ returned'.raised \in {"none", "ValueError"}
          /\ returned'.raised = "ValueError" <=>
               (~lfa_terms.loaded \/ ~claims_data[returned'.claim_id].ingested)
     /\ CheckCallRaised => UNCHANGED <<compliance_history, claims_data, lfa_terms>>
     /\ CheckCallReturned =>
          /\ Len(compliance_history') = Len(compliance_history) + 1
          /\ compliance_history'[Len(compliance_history')].claim_id = returned'.claim_id
          /\ compliance_history'[Len(compliance_history')].checks = returned'.checks
          /\ UNCHANGED <<claims_data, lfa_terms>>]_vars

\* C29 witness: with an entry in the history and LFA terms loaded, a check of
\* a claim that was never ingested has raised ValueError.
C29_Witness ==
  /\ returned.op = "check_lfa_compliance"
  /\ returned.raised = "ValueError"
  /\ lfa_terms.loaded
  /\ ~claims_data[returned.claim_id].ingested
  /\ Len(compliance_history) = 1

HoldRecommendation == "HOLD - Address compliance issues before proceeding"
HighRiskRecommendation == "REVIEW - High risk claim requires additional due diligence"

\* C30: a report rated High (risk_score >= 5) has a NON_COMPLIANT check and
\* recommends HOLD, and no report recommends the high-risk REVIEW.
C30_HighRiskMeansHold ==
  IcReportReturned =>
    LET report == returned.report
    IN  /\ (report.risk_assessment.risk_rating = "High")
             <=> (report.risk_assessment.risk_score >= 5)
        /\ report.risk_assessment.risk_rating = "High" =>
             /\ NonCompliant(report.compliance_status.detailed_checks) # <<>>
             /\ report.recommendation = HoldRecommendation
        /\ report.recommendation # HighRiskRecommendation

\* C30 witness: a report rated High, with one NON_COMPLIANT check, on HOLD.
C30_Witness ==
  /\ IcReportReturned
  /\ returned.report.risk_assessment.risk_rating = "High"
  /\ Len(NonCompliant(returned.report.compliance_status.detailed_checks)) = 1
  /\ returned.report.recommendation = HoldRecommendation

(***************************************************************************)
(* Calls interleaved on one shared validator                               *)
(***************************************************************************)
\* what the worker's call returns when it runs alone
RunAlone(w) ==
  IF workers[w].op = "check_eligibility"
  THEN check_eligibility(scheme_rules, clock, workers[w].claim_data)
  ELSE IF workers[w].op = "calculate_redress"
  THEN calculate_redress(scheme_rules, clock, time_of_day, workers[w].claim_data)
  ELSE calculate_dba_distribution(workers[w].args.net_dba_proceeds,
                                  workers[w].args.outstanding_costs_sum,
                                  workers[w].args.first_tier_funder_return,
                                  workers[w].args.distribution_costs_overrun)

\* C22: in every interleaving of the calls of the pool, the shared rules stay
\* the ones the validator was built with, and every call that has returned
\* has returned what it returns when run alone.
C22_InterleavedAsAlone ==
  pc = "pool" =>
    /\ scheme_rules \in PooledRules
    /\ \A w \in Workers : workers[w].pc = "done" => workers[w].result = RunAlone(w)

\* C22 witness: one check_eligibility has returned what it returns alone,
\* while the other check_eligibility and the calculate_redress are both in
\* mid-call, each with checks made and rules read, and the distribution has
\* not run yet.
C22_Witness ==
  /\ pc = "pool"
  /\ workers["w1"].pc = "done"
  /\ workers["w1"].result = RunAlone("w1")
  /\ workers["w1"].result.status = "ELIGIBLE"
  /\ workers["w2"].pc = "limitation"
  /\ ~workers["w2"].frame.product_type_eligible
  /\ workers["w3"].pc = "total"
  /\ workers["w4"].pc = "call"

====
